---- MODULE Spec2Model ----
(***************************************************************************)
(* Market News Radar: the ingestion-and-scoring pipeline (backend/scraper), *)
(* the store it writes through one shared connection (backend/db) and the   *)
(* scheduling loops, manual refresh and WebSocket fan-out (backend/app).    *)
(*                                                                          *)
(* Every task runs on one asyncio event loop: an action is the code a task  *)
(* runs between two awaits.  A Python str is a sequence of one-character    *)
(* strings.                                                                 *)
(***************************************************************************)
EXTENDS Integers, Sequences, FiniteSets, TLC

(***************************************************************************)
(* Strings                                                                  *)
(***************************************************************************)
LowerLetters == <<"a", "b", "c", "d", "e", "f", "g", "h", "i", "j", "k", "l", "m",
                  "n", "o", "p", "q", "r", "s", "t", "u", "v", "w", "x", "y", "z">>
UpperLetters == <<"A", "B", "C", "D", "E", "F", "G", "H", "I", "J", "K", "L", "M",
                  "N", "O", "P", "Q", "R", "S", "T", "U", "V", "W", "X", "Y", "Z">>

Range(f) == {f[i] : i \in DOMAIN f}

\* str.lower() and str.upper(), one character at a time
LowerMap == [c \in Range(UpperLetters) |-> LowerLetters[CHOOSE i \in 1..26 : UpperLetters[i] = c]]
UpperMap == [c \in Range(LowerLetters) |-> UpperLetters[CHOOSE i \in 1..26 : LowerLetters[i] = c]]
LowerChar(c) == IF c \in DOMAIN LowerMap THEN LowerMap[c] ELSE c
UpperChar(c) == IF c \in DOMAIN UpperMap THEN UpperMap[c] ELSE c
Lower(s) == [i \in 1..Len(s) |-> LowerChar(s[i])]
Upper(s) == [i \in 1..Len(s) |-> UpperChar(s[i])]

\* needle in hay
Contains(hay, needle) ==
    \E i \in 0..(Len(hay) - Len(needle)) : SubSeq(hay, i + 1, i + Len(needle)) = needle

\* hay.count(needle): non-overlapping occurrences, scanning from the left
\* (a count that stops at the first occurrence)
CountOnce(hay, needle) == IF Contains(hay, needle) THEN 1 ELSE 0

RECURSIVE CountFrom(_, _, _)
CountFrom(hay, needle, i) ==
    IF i + Len(needle) - 1 > Len(hay) THEN 0
    ELSE IF SubSeq(hay, i, i + Len(needle) - 1) = needle
         THEN 1 + CountFrom(hay, needle, i + (IF Len(needle) = 0 THEN 1 ELSE Len(needle)))
         ELSE CountFrom(hay, needle, i + 1)
Count(hay, needle) == CountFrom(hay, needle, 1)

\* s.strip() for the blank
RECURSIVE Strip(_)
Strip(s) ==
    IF s = <<>> THEN <<>>
    ELSE IF Head(s) = " " THEN Strip(Tail(s))
    ELSE IF s[Len(s)] = " " THEN Strip(SubSeq(s, 1, Len(s) - 1))
    ELSE s

\* s.split(","): always at least one piece
RECURSIVE SplitComma(_, _)
SplitComma(s, cur) ==
    IF s = <<>> THEN <<cur>>
    ELSE IF Head(s) = "," THEN <<cur>> \o SplitComma(Tail(s), <<>>)
    ELSE SplitComma(Tail(s), Append(cur, Head(s)))

\* a < b for words of small letters, as ORDER BY compares them
RECURSIVE WordBefore(_, _)
WordBefore(a, b) ==
    IF b = <<>> THEN FALSE
    ELSE IF a = <<>> THEN TRUE
    ELSE IF Head(a) = Head(b) THEN WordBefore(Tail(a), Tail(b))
    ELSE (CHOOSE i \in 1..26 : LowerLetters[i] = Head(a))
             < (CHOOSE i \in 1..26 : LowerLetters[i] = Head(b))

SeqFilterNonEmpty(ss) == SelectSeq(ss, LAMBDA x : x # <<>>)

\* " ".join(pieces)
RECURSIVE JoinBlank(_)
JoinBlank(pieces) ==
    IF pieces = <<>> THEN <<>>
    ELSE IF Len(pieces) = 1 THEN pieces[1]
    ELSE pieces[1] \o <<" ">> \o JoinBlank(Tail(pieces))

(***************************************************************************)
(* Content normalizer                                                       *)
(***************************************************************************)
\* The text nodes of a fragment: what lies outside <...>.
RECURSIVE TextNodes(_, _, _)
TextNodes(s, cur, inTag) ==
    IF s = <<>> THEN <<cur>>
    ELSE IF inTag
         THEN TextNodes(Tail(s), cur, Head(s) # ">")
         ELSE IF Head(s) = "<"
              THEN <<cur>> \o TextNodes(Tail(s), <<>>, TRUE)
              ELSE TextNodes(Tail(s), Append(cur, Head(s)), FALSE)

\* clean_html: get_text(separator=" ", strip=True) strips every text node,
\* drops the empty ones and joins the rest with one blank.
StripEach(ss) == [i \in 1..Len(ss) |-> Strip(ss[i])]
clean_html(text) ==
    IF text = <<>> THEN <<>>
    ELSE JoinBlank(SeqFilterNonEmpty(StripEach(TextNodes(text, <<>>, FALSE))))

\* The wall clock of the run (unix seconds, scaled).
Now == 2

\* The date strings parsedate_to_datetime accepts, with their timestamps; it
\* raises on every other string.
KnownDates == {<< <<"1", " ", "N", "o", "v">>, 1 >>}
Parses(date_str) == \E d \in KnownDates : d[1] = date_str
parse_published_date(date_str) ==
    IF date_str = <<>> THEN Now
    ELSE IF Parses(date_str)
         THEN (CHOOSE d \in KnownDates : d[1] = date_str)[2]
         ELSE Now

\* (a parser without the except clause: the error of parsedate_to_datetime
\* leaves it)
ParseErrorPropagates(date_str) == ~Parses(date_str)
\* Whether parse_published_date raises: the empty string is answered before
\* the parser is tried, and except Exception catches what the parser raises
ParseRaises(date_str) == FALSE

(***************************************************************************)
(* Relevance scorer                                                         *)
(***************************************************************************)
\* COMPANY_TO_TICKER, the entries for the symbols the model configures
COMPANY_TO_TICKER ==
    { << <<"a", "p", "p", "l", "e">>, <<"A", "A", "P", "L">> >>,
      << <<"t", "e", "s", "l", "a">>, <<"T", "S", "L", "A">> >>,
      << <<"m", "e", "t", "a">>, <<"M", "E", "T", "A">> >>,
      << <<"f", "o", "r", "d">>, <<"F">> >> }

ticker_patterns(ticker) ==
    { <<" ">> \o ticker \o <<" ">>,
      <<" ">> \o ticker \o <<",">>,
      <<" ">> \o ticker \o <<".">>,
      <<"(">> \o ticker \o <<")">>,
      <<"$">> \o ticker }

\* Method 1: the symbol between delimiters, in the text or in " text "
SymbolMatches(text, ticker) ==
    \E pattern \in ticker_patterns(ticker) :
        \/ Contains(Upper(text), Upper(pattern))
        \/ Contains(<<" ">> \o Upper(text) \o <<" ">>, Upper(pattern))

\* (a table that is not checked against the list)
AnyTicker(ticker_symbol, tickers) == TRUE
\* if ticker_symbol in tickers
ConfiguredTicker(ticker_symbol, tickers) == ticker_symbol \in tickers

\* Method 2: the symbols of the company names of the built-in table that
\* the lower-cased text holds, those of the configured tickers only
CompanyMatched(text, tickers) ==
    {m[2] : m \in {x \in COMPANY_TO_TICKER :
                      ConfiguredTicker(x[2], tickers) /\ Contains(Lower(text), x[1])}}

matched_tickers(text, tickers) ==
    {t \in tickers : SymbolMatches(text, t)} \cup CompanyMatched(text, tickers)

RECURSIVE keyword_hits(_, _)
keyword_hits(text, keywords) ==
    IF keywords = <<>> THEN 0
    ELSE Count(Lower(text), Lower(Head(keywords))) + keyword_hits(text, Tail(keywords))

strong_word_present(text, strong_words) ==
    \E i \in 1..Len(strong_words) : Contains(Lower(text), Lower(strong_words[i]))

\* (a bonus for every occurrence of every strong word)
strong_word_hits(text, strong_words) == keyword_hits(text, strong_words)
\* 1 if strong_word_present else 0
strong_word_signal(text, strong_words) ==
    IF strong_word_present(text, strong_words) THEN 1 ELSE 0

\* calculate_score returns (score, matched tickers); tickers is the set of
\* the configured symbols, keywords and strong_words are lists.
calculate_score(text, tickers, keywords, strong_words) ==
    [score |-> 2 * Cardinality(matched_tickers(text, tickers))
               + keyword_hits(text, keywords)
               + strong_word_signal(text, strong_words),
     matched |-> matched_tickers(text, tickers)]

\* run_cycle's strong-word list: the stored string split at commas, each piece
\* stripped, the empty pieces dropped
parse_strong_words(strong_words_str) ==
    SeqFilterNonEmpty(StripEach(SplitComma(strong_words_str, <<>>)))

(***************************************************************************)
(* The world outside: the seeded configuration and the documents the feeds  *)
(* serve                                                                    *)
(***************************************************************************)
Feeds == {1, 2}                       \* feeds.id, in ORDER BY name
TickerSymbol == [t \in {1, 2} |->     \* tickers.id -> tickers.symbol
                    IF t = 1 THEN <<"A", "A", "P", "L">> ELSE <<"T", "S", "L", "A">>]
SeedKeywords == << <<"l", "o", "s", "s">>, <<"s", "t", "o", "c", "k">> >>
SeedStrongWords == <<"b", "o", "o", "m", ",", " ", "c", "r", "a", "s", "h">>
SeedInterval == 600

\* A feed entry is a function from the fields it carries to their values.
eBoth == [link |-> "u1",
          title |-> <<"<", "b", ">", "A", "A", "P", "L", "<", "/", "b", ">", " ", "a", "n",
                      "d", " ", "T", "e", "s", "l", "a", " ", "b", "o", "o", "m">>,
          published |-> <<"1", " ", "N", "o", "v">>]
eDup == [link |-> "u1",
         title |-> <<"A", "p", "p", "l", "e">>,
         summary |-> <<"s", "t", "o", "c", "k", " ", "l", "o", "s", "s">>,
         published |-> <<"s", "o", "o", "n">>]
eOther == [link |-> "u2",
           title |-> <<"M", "e", "t", "a", "l">>,
           content |-> << <<"(", "T", "S", "L", "A", ")">> >>]
eNoLink == [title |-> <<"o", "l", "d">>]
eEmptyLink == [link |-> "", title |-> <<"o", "l", "d">>]
eNoTitle == [link |-> "u2", title |-> <<"<", "p", ">", " ", "<", "/", "p", ">">>]
eBadContent == [link |-> "u2", title |-> <<"o", "l", "d">>, content |-> <<>>]

\* The documents a fetch can return, by number
Docs == [d1 |-> <<eBoth, eDup>>,
         d2 |-> <<eNoLink, eEmptyLink, eBadContent, eOther, eNoTitle, eDup>>]
\* What each feed may serve
FeedDocs(f) == IF f = 1 THEN {"d1"} ELSE {"d2"}
FeedOrder == <<1, 2>>
WebSockets == {"w1", "w2"}
NewKeywords == {<<"M", "e", "t", "a">>}
IntervalValues == {5, 30}

\* Bounds of the exploration
MaxCycles == 2        \* run_cycle calls in one run
MaxApiCalls == 1      \* configuration and housekeeping requests in one run

Runners == {"sched", "manual"}

(***************************************************************************)
(* calculate_score on its own: the texts, lists and aliases it is tried on  *)
(***************************************************************************)
AAPL == <<"A", "A", "P", "L">>
TSLA == <<"T", "S", "L", "A">>
AN == <<"A", "N">>
SPY == <<"S", "P", "Y">>
TextApple ==
    <<"A", "p", "p", "l", "e", " ", "a", "n", "n", "o", "u", "n", "c", "e", "d", " ",
      "r", "e", "c", "o", "r", "d", " ", "q", "u", "a", "r", "t", "e", "r", "l", "y",
      " ", "e", "a", "r", "n", "i", "n", "g", "s", " ", "t", "o", "d", "a", "y", ",",
      " ", "T", "e", "s", "l", "a", " ", "t", "o", "o", ".">>
TextBanana ==
    <<"B", "A", "N", "A", "N", "A">>
TextJumped ==
    <<"A", "A", "P", "L", " ", "j", "u", "m", "p", "e", "d">>
TextCashtag ==
    <<"B", "u", "y", " ", "$", "A", "N", "T", " ", "n", "o", "w">>
TextThrice ==
    <<"e", "a", "r", "n", "i", "n", "g", "s", ",", " ", "E", "a", "r", "n", "i", "n",
      "g", "s", " ", "a", "n", "d", " ", "E", "A", "R", "N", "I", "N", "G", "S", ":",
      " ", "r", "e", "c", "o", "r", "d", " ", "b", "o", "o", "m", ",", " ", "r", "e",
      "c", "o", "r", "d">>
TextIndex ==
    <<"T", "h", "e", " ", "S", "&", "P", " ", "5", "0", "0", " ", "i", "n", "d", "e",
      "x", " ", "r", "o", "s", "e">>
TextParens ==
    <<"T", "e", "s", "l", "a", " ", "(", "T", "S", "L", "A", ")", ",", " ", "a", "a",
      "p", "l", ".">>
TextList ==
    <<"A", "N", ",", "T", "S", "L", "A">>
ScoreTexts == {<<>>, TextApple, TextBanana, TextJumped, TextCashtag, TextThrice, TextIndex,
               TextParens, TextList}
ScoreSymbols == {AAPL, TSLA, AN, SPY}
Earnings == <<"e", "a", "r", "n", "i", "n", "g", "s">>
ScoreKeywords == {<<>>, <<Earnings>>, <<Earnings, <<"a", "n", "a">> >>}
Record == <<"r", "e", "c", "o", "r", "d">>
ScoreStrongWords == {<<>>, <<Record>>, <<Record, <<"b", "o", "o", "m">> >>}

\* tickers.company_names as init_db seeds it, split at the commas: the
\* aliases of the configuration, for the symbols above
ConfiguredAliases ==
    { << <<"a", "p", "p", "l", "e">>, AAPL >>,
      << <<"a", "p", "p", "l", "e", " ", "i", "n", "c">>, AAPL >>,
      << <<"t", "e", "s", "l", "a">>, TSLA >>,
      << <<"t", "e", "s", "l", "a", " ", "m", "o", "t", "o", "r", "s">>, TSLA >>,
      << <<"s", "&", "p", " ", "5", "0", "0">>, SPY >>,
      << <<"s", "&", "p">>, SPY >>,
      << <<"s", "p", "y">>, SPY >> }

\* The calls the model tries
ScoreCalls ==
    [phase : {"called"}, text : ScoreTexts, tickers : SUBSET ScoreSymbols,
     keywords : ScoreKeywords, strong_words : ScoreStrongWords]

(***************************************************************************)
(* process_feed_entries, one entry                                          *)
(***************************************************************************)
Get(e, field, default) == IF field \in DOMAIN e THEN e[field] ELSE default
NoTitle == <<"N", "o", " ", "t", "i", "t", "l", "e">>

\* entry.get('content', [{}])[0] is evaluated only when summary and description
\* are both empty, and raises IndexError on an empty content list
EntryRaises(e) ==
    /\ Get(e, "summary", <<>>) = <<>>
    /\ Get(e, "description", <<>>) = <<>>
    /\ Get(e, "content", << <<>> >>) = <<>>
EntrySummary(e) ==
    IF Get(e, "summary", <<>>) # <<>> THEN e["summary"]
    ELSE IF Get(e, "description", <<>>) # <<>> THEN e["description"]
    ELSE Get(e, "content", << <<>> >>)[1]

\* (a loop that skips no entry)
SkipsNothing(url, title_clean) == FALSE
\* if not url or not title_clean: continue
SkipsEntry(url, title_clean) == url = "" \/ title_clean = <<>>

\* The entry gets as far as the existence check: no exception before it,
\* and neither the link nor the cleaned title is empty.
ReachesExists(e) ==
    /\ ~EntryRaises(e)
    /\ ~SkipsEntry(Get(e, "link", ""), clean_html(Get(e, "title", NoTitle)))

\* entry.get('published', entry.get('updated', ''))
published_date(e) == Get(e, "published", Get(e, "updated", <<>>))

full_text(e) == clean_html(Get(e, "title", NoTitle)) \o <<" ">> \o clean_html(EntrySummary(e))

\* The article data of an entry under the cycle's configuration snapshot cfg
\* (tickers: the ids of ticker_map, keywords and strong: lists)
ArticleOf(e, feed_id, cfg) ==
    LET sc == calculate_score(full_text(e), {TickerSymbol[t] : t \in cfg.tickers},
                              cfg.keywords, cfg.strong)
    IN [feed_id |-> feed_id,
        url |-> Get(e, "link", ""),
        title |-> clean_html(Get(e, "title", NoTitle)),
        published_ts |-> parse_published_date(Get(e, "published", Get(e, "updated", <<>>))),
        score |-> sc.score,
        ticker_ids |-> {t \in cfg.tickers : TickerSymbol[t] \in sc.matched}]

\* The next entry at or after position i that awaits the existence check
\* (the entries before it are skipped without suspending); 0 if there is none
RECURSIVE NextAwait(_, _)
NextAwait(doc, i) ==
    IF i > Len(doc) THEN 0
    ELSE IF ReachesExists(doc[i]) THEN i
    ELSE NextAwait(doc, i + 1)

\* NextAwait of the documents the feeds serve, tabulated
NextAwaitOf ==
    [d \in DOMAIN Docs |-> [i \in 1..(Len(Docs[d]) + 1) |-> NextAwait(Docs[d], i)]]

\* ArticleOf of the entries the feeds serve, under the seeded keywords and
\* strong words and each set of tickers, tabulated
SeedStrong == parse_strong_words(SeedStrongWords)
ArticlesUnder(kw) ==
    [d \in DOMAIN Docs |-> [i \in DOMAIN Docs[d] |->
        [tk \in SUBSET DOMAIN TickerSymbol |->
            IF ReachesExists(Docs[d][i])
            THEN ArticleOf(Docs[d][i], 0,
                           [feeds |-> <<>>, tickers |-> tk, keywords |-> kw,
                            strong |-> SeedStrong])
            ELSE <<>>]]]
SeedArticles == ArticlesUnder(SeedKeywords)

\* The keyword list with one more word: ORDER BY word
keywords_with(ws, w) ==
    LET k == Cardinality({i \in DOMAIN ws : WordBefore(ws[i], w)})
    IN SubSeq(ws, 1, k) \o <<w>> \o SubSeq(ws, k + 1, Len(ws))

\* The same table under the seeded keywords with one of the new keywords
MoreArticles ==
    [kw \in {keywords_with(SeedKeywords, Lower(w)) : w \in NewKeywords} |-> ArticlesUnder(kw)]

\* The URLs process_feed_entries asks the store about, per document
ValidUrlsOf ==
    [d \in DOMAIN Docs |->
        {Get(Docs[d][i], "link", "") :
             i \in {k \in 1..Len(Docs[d]) : ReachesExists(Docs[d][k])}}]

(***************************************************************************)
(* State                                                                    *)
(***************************************************************************)
VARIABLES
    feedActive,          \* feeds.active
    tickers,             \* ids of the rows of tickers
    keywords,            \* keywords.word, ORDER BY word
    settings,            \* the settings row
    articles,            \* rows of articles, as the shared connection sees them
    article_tickers,     \* rows of article_tickers, <<article_id, ticker_id>>
    nextId,              \* AUTOINCREMENT of articles.id
    durable,             \* what the last commit made durable
    loop,                \* which scheduling loop the host runs
    pc,                  \* where each task is suspended
    interval,            \* the scheduling loop's local interval
    sleepFor,            \* seconds of the sleep the scheduling loop is in
    snap,                \* run_cycle's locals: active_feeds, ticker_map, keywords, strong_words
    fetched,             \* run_cycle's feed_results
    ppos,                \* process_feed_entries: next entry of each feed
    out,                 \* process_feed_entries: articles of each feed
    all_articles,        \* run_cycle's all_articles
    ins,                 \* the insert loop and the insert_article call in flight
    inserted_count,      \* run_cycle's inserted_count
    active_connections,  \* ConnectionManager.active_connections
    bc,                  \* broadcast's locals and the set iterator
    response,            \* status of the last answer to POST /api/refresh
    cyclesLeft,          \* run_cycle calls the exploration still allows (negative: any number)
    apiCalls,            \* configuration and housekeeping requests so far
    intended,            \* history: the associations insert_article was asked to write
    notified,            \* history: counts published since each task's cycle began
    insertErrors,        \* history: insert_article calls of the cycle that raised
    ingested,            \* history: URLs of the entries of completed cycles, none deleted since
    known,               \* history: ingested, as it was when each task's cycle began
    dirty,               \* history: the tasks whose cycle has seen articles deleted
    retried,             \* history: a cycle has begun after the recovery sleep
    cyc,                 \* history: what each task's cycle began with, read first and wrote
    catalog,             \* SeedArticles and the words it is for, computed once
    scoring,             \* a call of calculate_score on its own: arguments and result
    stop                 \* shutdown_event: how far it is, and where it caught the loop

cfgVars == <<feedActive, tickers, keywords, settings>>
storeVars == <<articles, article_tickers, nextId, durable, intended>>
cycleVars == <<snap, fetched, ppos, out, all_articles, ins, inserted_count, insertErrors>>
loopVars == <<loop, interval, sleepFor>>
wsVars == <<active_connections, bc>>
startVars == <<known, dirty, retried>>
histVars == <<ingested, known, dirty, retried>>
fixedVars == <<catalog, scoring, stop>>
restVars == <<fixedVars, cyc>>
vars == <<cfgVars, storeVars, cycleVars, loopVars, wsVars, pc, response, cyclesLeft,
          apiCalls, notified, histVars, restVars>>

EmptySnap == [feeds |-> <<>>, tickers |-> {}, keywords |-> <<>>, strong |-> <<>>]
NoInsert == [i |-> 0, phase |-> "none", id |-> 0, left |-> {}]
\* (initial and changed are history: the set when the iteration began, and
\* whether it has changed since)
NoBroadcast == [size |-> 0, todo |-> {}, cur |-> "", disconnected |-> {}, sent |-> {},
                result |-> "none", initial |-> {}, changed |-> FALSE]

\* (history) A cycle that has not begun: the refresh interval the settings
\* held when run_cycle was called and when it returned, the configuration at
\* the first read of the cycle, the ids of the rows it has written, and the
\* entries (feed and position) whose existence check has raised
NoCycle == [began |-> 0, ended |-> 0, read |-> FALSE, cfg |-> EmptySnap, added |-> {},
            raised |-> {}]
\* No call of calculate_score on its own, and no shutdown
NoScoring == [phase |-> "none"]
NoStop == [phase |-> "none", at |-> "none"]

\* The sleeps of the loops: after an exception, before the first cycle, and
\* the least interval of background_scraper_loop
RecoveryInterval == 60
StartupDelay == 5
MinInterval == 10

InitState ==
    /\ feedActive \in [Feeds -> BOOLEAN]
    /\ tickers \in SUBSET DOMAIN TickerSymbol
    /\ keywords = SeedKeywords
    /\ settings = [refresh_interval |-> SeedInterval, strong_words |-> SeedStrongWords]
    /\ articles = {}
    /\ article_tickers = {}
    /\ nextId = 1
    /\ durable = [articles |-> {}, article_tickers |-> {}]
    /\ loop \in {"background_scraper_loop", "scraper_loop"}
    /\ pc = [r \in Runners |-> IF r = "sched" THEN "startup" ELSE "idle"]
    /\ interval = 0
    /\ sleepFor = IF loop = "background_scraper_loop" THEN StartupDelay ELSE 0
    /\ snap = [r \in Runners |-> EmptySnap]
    /\ fetched = [r \in Runners |-> [f \in Feeds |-> "none"]]
    /\ ppos = [r \in Runners |-> [f \in Feeds |-> 0]]
    /\ out = [r \in Runners |-> [f \in Feeds |-> <<>>]]
    /\ all_articles = [r \in Runners |-> <<>>]
    /\ ins = [r \in Runners |-> NoInsert]
    /\ inserted_count = [r \in Runners |-> 0]
    /\ active_connections = {}
    /\ bc = [r \in Runners |-> NoBroadcast]
    /\ response = "none"
    /\ cyclesLeft \in {-1, MaxCycles}
    /\ apiCalls = 0
    /\ intended = {}
    /\ notified = [r \in Runners |-> <<>>]
    /\ insertErrors = [r \in Runners |-> 0]
    /\ ingested = {}
    /\ known = [r \in Runners |-> {}]
    /\ dirty = {}
    /\ retried = FALSE
    /\ cyc = [r \in Runners |-> NoCycle]
    /\ catalog = [keywords |-> SeedKeywords, strong |-> SeedStrong,
                  articles |-> SeedArticles, more |-> MoreArticles]
    /\ stop = NoStop

\* The application: calculate_score is called by process_feed_entries only
Init ==
    /\ InitState
    /\ scoring = NoScoring

(***************************************************************************)
(* The store: one shared connection, implicit transactions, no rollback     *)
(***************************************************************************)
\* (a lookup that also finds what the cycles have prepared)
ExistsOrPrepared(url) ==
    \/ \E a \in articles : a.url = url
    \/ \E r \in Runners, f \in Feeds : \E i \in DOMAIN out[r][f] : out[r][f][i].url = url
\* (a lookup that finds nothing)
ExistsNever(url) == FALSE
\* SELECT COUNT(*) FROM articles WHERE url = ?: count > 0
article_exists(url) == \E a \in articles : a.url = url

\* connection.commit(): everything written on the connection becomes durable
Committed == [articles |-> {a.id : a \in articles}, article_tickers |-> article_tickers]

(***************************************************************************)
(* Where a task goes when its cycle is over                                 *)
(***************************************************************************)
\* (a loop without the except clause: the exception ends the task)
LoopDies(r) ==
    /\ pc' = [pc EXCEPT ![r] = "dead"]
    /\ sleepFor' = 0
    /\ response' = IF r = "manual" THEN "500" ELSE response

\* except Exception: the loops back off, the request handler answers 500
Escapes(r) ==
    /\ pc' = [pc EXCEPT ![r] = IF r = "sched" THEN "backoff" ELSE "idle"]
    /\ sleepFor' = IF r = "sched" THEN RecoveryInterval ELSE sleepFor
    /\ response' = IF r = "manual" THEN "500" ELSE response

\* (a loop that reads the settings again before it sleeps)
CompletesRereading(r) ==
    /\ pc' = [pc EXCEPT ![r] = IF r = "sched" THEN "sleep" ELSE "idle"]
    /\ sleepFor' = IF r = "sched"
                   THEN (IF settings.refresh_interval > MinInterval
                         THEN settings.refresh_interval ELSE MinInterval)
                   ELSE sleepFor
    /\ response' = IF r = "manual" THEN "200" ELSE response

\* After the broadcast: background_scraper_loop sleeps its interval, the
\* request handler answers 200
Completes(r) ==
    /\ pc' = [pc EXCEPT ![r] = IF r = "sched" THEN "sleep" ELSE "idle"]
    /\ sleepFor' = IF r = "sched" THEN interval ELSE sleepFor
    /\ response' = IF r = "manual" THEN "200" ELSE response

\* The URLs of the entries of the documents fet that get as far as the
\* existence check
ValidUrls(fet) ==
    UNION {ValidUrlsOf[fet[f]] : f \in {g \in Feeds : fet[g] \in DOMAIN Docs}}

\* run_cycle returns n to its caller, having worked on the documents fet
Returns(r, n, fet) ==
    /\ pc' = [pc EXCEPT ![r] = "ret"]
    /\ inserted_count' = [inserted_count EXCEPT ![r] = n]
    /\ ingested' = IF r \in dirty THEN ingested ELSE ingested \cup ValidUrls(fet)

ClearCycle(r) ==
    /\ snap' = [snap EXCEPT ![r] = EmptySnap]
    /\ fetched' = [fetched EXCEPT ![r] = [f \in Feeds |-> "none"]]
    /\ ppos' = [ppos EXCEPT ![r] = [f \in Feeds |-> 0]]
    /\ out' = [out EXCEPT ![r] = [f \in Feeds |-> <<>>]]
    /\ all_articles' = [all_articles EXCEPT ![r] = <<>>]
    /\ ins' = [ins EXCEPT ![r] = NoInsert]

\* A call of run_cycle begins
BeginCycle(r) ==
    /\ cyclesLeft # 0
    /\ cyclesLeft' = IF cyclesLeft > 0 THEN cyclesLeft - 1 ELSE cyclesLeft
    /\ inserted_count' = [inserted_count EXCEPT ![r] = 0]
    /\ insertErrors' = [insertErrors EXCEPT ![r] = 0]
    /\ notified' = [notified EXCEPT ![r] = <<>>]
    /\ bc' = [bc EXCEPT ![r] = NoBroadcast]
    /\ known' = [known EXCEPT ![r] = ingested]
    /\ dirty' = dirty \ {r}
    /\ cyc' = [cyc EXCEPT ![r] = [NoCycle EXCEPT !.began = settings.refresh_interval]]

(***************************************************************************)
(* The scheduling loops and the manual refresh, up to the call of run_cycle *)
(***************************************************************************)
\* background_scraper_loop: the start-up sleep is over
StartupDone ==
    /\ loop = "background_scraper_loop"
    /\ pc["sched"] = "startup"
    /\ pc' = [pc EXCEPT !["sched"] = "settings"]
    /\ sleepFor' = 0
    /\ UNCHANGED <<cfgVars, storeVars, cycleVars, loop, restVars, interval, wsVars, response,
                   cyclesLeft, apiCalls, notified, histVars>>

\* background_scraper_loop: get_settings, the clamped interval, then run_cycle
LoopGetSettings ==
    /\ loop = "background_scraper_loop"
    /\ pc["sched"] = "settings"
    /\ interval' = IF settings.refresh_interval > MinInterval
                   THEN settings.refresh_interval ELSE MinInterval
    /\ BeginCycle("sched")
    /\ pc' = [pc EXCEPT !["sched"] = "feeds"]
    /\ UNCHANGED <<cfgVars, storeVars, snap, fetched, ppos, out, all_articles, ins,
                   loop, fixedVars, sleepFor, active_connections, response, apiCalls, ingested,
                   retried>>

\* scraper_loop: the loop body starts with run_cycle
ScraperLoopBegin ==
    /\ loop = "scraper_loop"
    /\ pc["sched"] = "startup"
    /\ BeginCycle("sched")
    /\ pc' = [pc EXCEPT !["sched"] = "feeds"]
    /\ UNCHANGED <<cfgVars, storeVars, snap, fetched, ppos, out, all_articles, ins,
                   loopVars, fixedVars, active_connections, response, apiCalls, ingested, retried>>

\* scraper_loop: get_settings after the cycle, then sleep what it holds
ScraperLoopSleep ==
    /\ loop = "scraper_loop"
    /\ pc["sched"] = "settings"
    /\ interval' = settings.refresh_interval
    /\ sleepFor' = settings.refresh_interval
    /\ pc' = [pc EXCEPT !["sched"] = "sleep"]
    /\ UNCHANGED <<cfgVars, storeVars, cycleVars, loop, restVars, wsVars, response, cyclesLeft,
                   apiCalls, notified, histVars>>

\* asyncio.sleep returns: the next iteration of while True
Wake ==
    /\ pc["sched"] \in {"sleep", "backoff"}
    /\ sleepFor' = 0
    /\ retried' = (retried \/ pc["sched"] = "backoff")
    /\ IF loop = "background_scraper_loop"
       THEN /\ pc' = [pc EXCEPT !["sched"] = "settings"]
            /\ UNCHANGED <<cyclesLeft, inserted_count, insertErrors, notified, bc,
                           known, dirty, cyc>>
       ELSE /\ BeginCycle("sched")
            /\ pc' = [pc EXCEPT !["sched"] = "feeds"]
    /\ UNCHANGED <<cfgVars, storeVars, snap, fetched, ppos, out, all_articles, ins,
                   loop, fixedVars, interval, active_connections, response, apiCalls, ingested>>

\* POST /api/refresh: the handler calls run_cycle, whatever else is running
manual_refresh ==
    /\ loop = "background_scraper_loop"
    /\ pc["manual"] = "idle"
    /\ BeginCycle("manual")
    /\ pc' = [pc EXCEPT !["manual"] = "feeds"]
    /\ response' = "none"
    /\ UNCHANGED <<cfgVars, storeVars, snap, fetched, ppos, out, all_articles, ins,
                   loopVars, fixedVars, active_connections, apiCalls, ingested, retried>>

(***************************************************************************)
(* run_cycle                                                                *)
(***************************************************************************)
ActiveFeeds == SelectSeq(FeedOrder, LAMBDA f : feedActive[f])

\* What the four reads of run_cycle would give at this instant
CurrentConfig ==
    [feeds |-> ActiveFeeds, tickers |-> tickers, keywords |-> keywords,
     strong |-> parse_strong_words(settings.strong_words)]

\* (a cycle that goes on without feeds)
NeverEmpty(active_feeds) == FALSE
\* if not active_feeds
NoActiveFeeds(active_feeds) == active_feeds = <<>>

\* get_all_feeds; no active feed: return 0
LoadFeeds(r) ==
    /\ pc[r] = "feeds"
    /\ cyc' = [cyc EXCEPT ![r].read = TRUE, ![r].cfg = CurrentConfig]
    /\ IF NoActiveFeeds(ActiveFeeds)
       THEN /\ Returns(r, 0, fetched[r])
            /\ UNCHANGED snap
       ELSE /\ snap' = [snap EXCEPT ![r].feeds = ActiveFeeds]
            /\ pc' = [pc EXCEPT ![r] = "tickers"]
            /\ UNCHANGED <<inserted_count, ingested>>
    /\ UNCHANGED <<cfgVars, storeVars, fetched, ppos, out, all_articles, ins,
                   insertErrors, loopVars, fixedVars, wsVars, response, cyclesLeft, apiCalls,
                   notified, startVars>>

\* The store raises on the first read of the cycle (locked, I/O error): the
\* exception leaves run_cycle
LoadFails(r) ==
    /\ pc[r] = "feeds"
    /\ Escapes(r)
    /\ UNCHANGED <<cfgVars, storeVars, cycleVars, loop, restVars, interval, wsVars, cyclesLeft,
                   apiCalls, notified, histVars>>

\* get_all_tickers: tickers and ticker_map
LoadTickers(r) ==
    /\ pc[r] = "tickers"
    /\ snap' = [snap EXCEPT ![r].tickers = tickers]
    /\ pc' = [pc EXCEPT ![r] = "keywords"]
    /\ UNCHANGED <<cfgVars, storeVars, fetched, ppos, out, all_articles, ins,
                   inserted_count, insertErrors, loopVars, restVars, wsVars, response, cyclesLeft,
                   apiCalls, notified, histVars>>

\* get_all_keywords
LoadKeywords(r) ==
    /\ pc[r] = "keywords"
    /\ snap' = [snap EXCEPT ![r].keywords = keywords]
    /\ pc' = [pc EXCEPT ![r] = "strong"]
    /\ UNCHANGED <<cfgVars, storeVars, fetched, ppos, out, all_articles, ins,
                   inserted_count, insertErrors, loopVars, restVars, wsVars, response, cyclesLeft,
                   apiCalls, notified, histVars>>

\* get_settings: strong_words; then one fetch task per active feed
LoadSettings(r) ==
    /\ pc[r] = "strong"
    /\ snap' = [snap EXCEPT ![r].strong = parse_strong_words(settings.strong_words)]
    /\ fetched' = [fetched EXCEPT ![r] =
                       [f \in Feeds |-> IF f \in Range(snap[r].feeds)
                                        THEN "pending" ELSE "none"]]
    /\ pc' = [pc EXCEPT ![r] = "fetch"]
    /\ UNCHANGED <<cfgVars, storeVars, ppos, out, all_articles, ins, inserted_count,
                   insertErrors, loopVars, restVars, wsVars, response, cyclesLeft, apiCalls, notified,
                   histVars>>

\* Every process_feed_entries task of the cycle has run to its end
AllProcessed(fet, pos) ==
    \A f \in Feeds : fet[f] \in DOMAIN Docs => NextAwaitOf[fet[f]][pos[f]] = 0

\* (a gather that does not return)
GatherHangs(fet) == FALSE
\* (a gather that returns with the first fetch that ends)
FirstFetchDone(fet) == \E f \in Feeds : fet[f] \notin {"none", "pending"}
\* gather(*fetch_tasks) returns only when no fetch is pending
FetchesDone(fet) == \A f \in Feeds : fet[f] # "pending"

\* (the articles of the first task only)
FirstResultOnly(o) == o[FeedOrder[1]]
\* processed_results, in the order of the tasks
Gathered(o) == o[FeedOrder[1]] \o o[FeedOrder[2]]

\* The processing is over: all_articles, and the insert loop or the return
ToInsert(r, o, fet) ==
    /\ all_articles' = [all_articles EXCEPT ![r] = Gathered(o)]
    /\ IF Gathered(o) = <<>>
       THEN /\ Returns(r, 0, fet)
            /\ UNCHANGED ins
       ELSE /\ pc' = [pc EXCEPT ![r] = "insert"]
            /\ ins' = [ins EXCEPT ![r] = [i |-> 1, phase |-> "row", id |-> 0, left |-> {}]]
            /\ UNCHANGED <<inserted_count, ingested>>

\* fetch_feed of feed f ends: a parsed document, or None after a timeout, a
\* status other than 200 or a connection error
FetchEnds(r, f, res) ==
    /\ pc[r] = "fetch"
    /\ fetched[r][f] = "pending"
    /\ LET fet == [fetched[r] EXCEPT ![f] = res]
           pos == [g \in Feeds |-> IF fet[g] \in DOMAIN Docs THEN 1 ELSE 0]
       IN /\ fetched' = [fetched EXCEPT ![r] = fet]
          /\ IF ~FetchesDone(fet)
             THEN UNCHANGED <<pc, ppos, all_articles, ins, inserted_count, ingested>>
             ELSE /\ ppos' = [ppos EXCEPT ![r] = pos]
                  /\ IF AllProcessed(fet, pos)
                     THEN ToInsert(r, out[r], fet)
                     ELSE /\ pc' = [pc EXCEPT ![r] = "process"]
                          /\ UNCHANGED <<all_articles, ins, inserted_count, ingested>>
    /\ UNCHANGED <<cfgVars, storeVars, snap, out, insertErrors, loopVars, restVars, wsVars,
                   response, cyclesLeft, apiCalls, notified, startVars>>

\* ArticleOf of entry i of document d: from the catalog when the snapshot has
\* the words of the catalog, computed otherwise
ArticleFor(d, i, feed_id, cfg) ==
    IF cfg.keywords = catalog.keywords /\ cfg.strong = catalog.strong
    THEN [catalog.articles[d][i][cfg.tickers] EXCEPT !.feed_id = feed_id]
    ELSE IF cfg.keywords \in DOMAIN catalog.more /\ cfg.strong = catalog.strong
    THEN [catalog.more[cfg.keywords][d][i][cfg.tickers] EXCEPT !.feed_id = feed_id]
    ELSE ArticleOf(Docs[d][i], feed_id, cfg)

\* The process_feed_entries task of feed f exists, which is after the gather
\* of the fetches, and has an entry to ask the store about
CanProcess(r, f) ==
    /\ pc[r] = "process"
    /\ fetched[r][f] \in DOMAIN Docs
    /\ NextAwaitOf[fetched[r][f]][ppos[r][f]] # 0

\* process_feed_entries of feed f: the existence check of its next entry
\* that gets that far, and the article data when the URL is not stored (an
\* exception on the way to the article data would skip the entry)
ProcessEntry(r, f) ==
    /\ CanProcess(r, f)
    /\ LET doc == Docs[fetched[r][f]]
           j == NextAwaitOf[fetched[r][f]][ppos[r][f]]
           pos == [ppos[r] EXCEPT ![f] = j + 1]
           o == IF article_exists(Get(doc[j], "link", "")) \/ ParseRaises(published_date(doc[j]))
                THEN out[r]
                ELSE [out[r] EXCEPT ![f] = Append(@, ArticleFor(fetched[r][f], j, f, snap[r]))]
       IN /\ ppos' = [ppos EXCEPT ![r] = pos]
          /\ out' = [out EXCEPT ![r] = o]
          /\ IF AllProcessed(fetched[r], pos)
             THEN ToInsert(r, o, fetched[r])
             ELSE UNCHANGED <<pc, all_articles, ins, inserted_count, ingested>>
    /\ UNCHANGED <<cfgVars, storeVars, snap, fetched, insertErrors, loopVars, restVars, wsVars,
                   response, cyclesLeft, apiCalls, notified, startVars>>

\* (a loop over the entries without try)
NoEntryHandler(exc) == TRUE
\* Whether an exception raised on an entry leaves process_feed_entries: the
\* body of the for loop is in try, except Exception: continue
EntryErrorLeaves(exc) == exc = "CancelledError"

\* process_feed_entries of feed f: the existence check of its next entry
\* raises (locked database, I/O error).  The loop goes on with the next
\* entry; an exception that left the task would leave the gather and
\* run_cycle.
ExistsFails(r, f) ==
    /\ CanProcess(r, f)
    /\ LET j == NextAwaitOf[fetched[r][f]][ppos[r][f]]
           pos == [ppos[r] EXCEPT ![f] = j + 1]
       IN IF EntryErrorLeaves("OperationalError")
          THEN /\ Escapes(r)
               /\ ClearCycle(r)
               /\ UNCHANGED <<inserted_count, ingested, cyc>>
          ELSE /\ ppos' = [ppos EXCEPT ![r] = pos]
               /\ cyc' = [cyc EXCEPT ![r].raised = @ \cup {<<f, j>>}]
               /\ IF AllProcessed(fetched[r], pos)
                  THEN ToInsert(r, out[r], fetched[r])
                  ELSE UNCHANGED <<pc, all_articles, ins, inserted_count, ingested>>
               /\ UNCHANGED <<snap, fetched, out, sleepFor, response>>
    /\ UNCHANGED <<cfgVars, storeVars, insertErrors, loop, interval, fixedVars, wsVars,
                   cyclesLeft, apiCalls, notified, startVars>>

\* The insert loop moves on after article i, with n as the count
NextArticle(r, n) ==
    IF ins[r].i = Len(all_articles[r])
    THEN /\ Returns(r, n, fetched[r])
         /\ ins' = [ins EXCEPT ![r] = NoInsert]
    ELSE /\ ins' = [ins EXCEPT ![r] = [i |-> @.i + 1, phase |-> "row", id |-> 0,
                                       left |-> {}]]
         /\ inserted_count' = [inserted_count EXCEPT ![r] = n]
         /\ UNCHANGED <<pc, ingested>>

\* (a table without the constraint)
NoUniqueConstraint(url) == TRUE
\* A row for the article, unless its URL is stored: UNIQUE(url)
UrlIsFree(url) == ~article_exists(url)
ArticleRow(a, id) ==
    [id |-> id, feed_id |-> a.feed_id, url |-> a.url, title |-> a.title,
     published_ts |-> a.published_ts, score |-> a.score]

\* insert_article: INSERT INTO articles; IntegrityError on a stored URL is
\* caught by run_cycle, which goes on with the next article
InsertRow(r) ==
    /\ pc[r] = "insert"
    /\ ins[r].phase = "row"
    /\ LET a == all_articles[r][ins[r].i]
       IN IF UrlIsFree(a.url)
          THEN /\ articles' = articles \cup {ArticleRow(a, nextId)}
               /\ nextId' = nextId + 1
               /\ intended' = intended \cup {<<nextId, t>> : t \in a.ticker_ids}
               /\ cyc' = [cyc EXCEPT ![r].added = @ \cup {nextId}]
               /\ ins' = [ins EXCEPT ![r] =
                              [i |-> @.i,
                               phase |-> IF a.ticker_ids = {} THEN "commit" ELSE "assoc",
                               id |-> nextId, left |-> a.ticker_ids]]
               /\ UNCHANGED <<pc, inserted_count, insertErrors, ingested>>
          ELSE /\ NextArticle(r, inserted_count[r])
               /\ insertErrors' = [insertErrors EXCEPT ![r] = @ + 1]
               /\ UNCHANGED <<articles, nextId, intended, cyc>>
    /\ UNCHANGED <<cfgVars, article_tickers, durable, snap, fetched, ppos, out,
                   all_articles, loopVars, fixedVars, wsVars, response, cyclesLeft, apiCalls,
                   notified, startVars>>

\* insert_article: INSERT INTO article_tickers for one of the ticker ids (the
\* list comes from a set: any order)
InsertAssociation(r, t) ==
    /\ pc[r] = "insert"
    /\ ins[r].phase = "assoc"
    /\ t \in ins[r].left
    /\ article_tickers' = article_tickers \cup {<<ins[r].id, t>>}
    /\ ins' = [ins EXCEPT ![r].left = @ \ {t},
                          ![r].phase = IF ins[r].left = {t} THEN "commit" ELSE "assoc"]
    /\ UNCHANGED <<cfgVars, articles, nextId, durable, intended, snap, fetched, ppos,
                   out, all_articles, inserted_count, insertErrors, loopVars, restVars, wsVars,
                   pc, response, cyclesLeft, apiCalls, notified, histVars>>

\* (an insert_article that rolls the connection back on an error)
RollsBack ==
    /\ articles' = {a \in articles : a.id \in durable.articles}
    /\ article_tickers' = durable.article_tickers
    /\ UNCHANGED durable
\* What insert_article does when a statement of it raises: nothing; the
\* exception leaves it with its transaction open
AbandonInsert == UNCHANGED <<articles, article_tickers, durable>>

\* insert_article: an INSERT INTO article_tickers raises (disk full, I/O
\* error); run_cycle catches it and goes on with the next article
InsertAssociationFails(r) ==
    /\ pc[r] = "insert"
    /\ ins[r].phase = "assoc"
    /\ AbandonInsert
    /\ NextArticle(r, inserted_count[r])
    /\ insertErrors' = [insertErrors EXCEPT ![r] = @ + 1]
    /\ UNCHANGED <<cfgVars, nextId, intended, snap, fetched, ppos, out, all_articles,
                   loopVars, restVars, wsVars, response, cyclesLeft, apiCalls, notified, startVars>>

\* insert_article: commit, and run_cycle counts the article
InsertCommit(r) ==
    /\ pc[r] = "insert"
    /\ ins[r].phase = "commit"
    /\ durable' = Committed
    /\ NextArticle(r, inserted_count[r] + 1)
    /\ UNCHANGED <<cfgVars, articles, article_tickers, nextId, intended, snap, fetched,
                   ppos, out, all_articles, insertErrors, loopVars, restVars, wsVars, response,
                   cyclesLeft, apiCalls, notified, startVars>>

(***************************************************************************)
(* After run_cycle: the notification                                        *)
(***************************************************************************)
\* for connection in self.active_connections: the iterator takes one of the
\* elements it has not yielded, and the send to it starts
IterNext(b, c) == [b EXCEPT !.cur = c, !.todo = @ \ {c}]

\* (a broadcast after every cycle)
BroadcastAlways(n) == TRUE
\* if inserted > 0
ShouldBroadcast(n) == n > 0

\* run_cycle has returned.  scraper_loop reads the settings; the application
\* broadcasts when inserted > 0, and broadcast returns at once when nobody
\* is connected.
AfterCycle(r) ==
    /\ pc[r] = "ret"
    /\ ClearCycle(r)
    /\ cyc' = [cyc EXCEPT ![r].ended = settings.refresh_interval]
    /\ IF r = "sched" /\ loop = "scraper_loop"
       THEN /\ pc' = [pc EXCEPT ![r] = "settings"]
            /\ UNCHANGED <<sleepFor, response, notified, bc>>
       ELSE IF ShouldBroadcast(inserted_count[r])
       THEN /\ notified' = [notified EXCEPT ![r] = Append(@, inserted_count[r])]
            /\ IF active_connections = {}
               THEN /\ Completes(r)
                    /\ bc' = [bc EXCEPT ![r].result = "returned"]
               ELSE /\ \E c \in active_connections :
                         bc' = [bc EXCEPT ![r] =
                                   IterNext([NoBroadcast EXCEPT
                                                !.size = Cardinality(active_connections),
                                                !.todo = active_connections,
                                                !.initial = active_connections], c)]
                    /\ pc' = [pc EXCEPT ![r] = "send"]
                    /\ UNCHANGED <<sleepFor, response>>
       ELSE /\ Completes(r)
            /\ UNCHANGED <<notified, bc>>
    /\ UNCHANGED <<cfgVars, storeVars, inserted_count, insertErrors, loop, fixedVars, interval,
                   active_connections, cyclesLeft, apiCalls, histVars>>

\* What broadcast does with a send that raised: it notes the connection
AfterSend(b, ok) ==
    [b EXCEPT !.sent = @ \cup {b.cur},
              !.disconnected = IF ok THEN @ ELSE @ \cup {b.cur}]

\* (a send outside try)
SendFailurePropagates(ok) == ~ok
\* Whether the exception of a send leaves broadcast: except Exception
\* catches it
SendRaises(ok) == FALSE

\* (a broadcast that leaves the set as it is)
NotPruned(connections, disconnected) == connections
\* for conn in disconnected: self.active_connections.discard(conn)
Pruned(connections, disconnected) == connections \ disconnected

\* send_text to the current connection ends, well or with an exception, and
\* the for statement asks the iterator for the next connection: RuntimeError
\* when the set has changed size, the pruning of the failed connections and
\* the return when it is exhausted
SendEnds(r, ok) ==
    /\ pc[r] = "send"
    /\ LET b == AfterSend(bc[r], ok)
       IN IF SendRaises(ok) \/ Cardinality(active_connections) # b.size
          THEN /\ Escapes(r)
               /\ bc' = [bc EXCEPT ![r] = [b EXCEPT !.cur = "", !.result = "raised"]]
               /\ UNCHANGED active_connections
          ELSE IF b.todo = {}
          THEN /\ Completes(r)
               /\ active_connections' = Pruned(active_connections, b.disconnected)
               /\ bc' = [q \in Runners |->
                            IF q = r THEN [b EXCEPT !.cur = "", !.result = "returned"]
                            ELSE [bc[q] EXCEPT
                                     !.todo = @ \ b.disconnected,
                                     !.changed = @ \/ (pc[q] = "send" /\
                                         active_connections \cap b.disconnected # {})]]
          ELSE /\ \E c \in b.todo : bc' = [bc EXCEPT ![r] = IterNext(b, c)]
               /\ UNCHANGED <<pc, sleepFor, response, active_connections>>
    /\ UNCHANGED <<cfgVars, storeVars, cycleVars, loop, restVars, interval, cyclesLeft, apiCalls,
                   notified, histVars>>

\* /ws: ConnectionManager.connect.  An iterator in progress may or may not
\* come across the new element.
Connect(w) ==
    /\ loop = "background_scraper_loop"
    /\ w \notin active_connections
    /\ active_connections' = active_connections \cup {w}
    /\ \E seen \in SUBSET {r \in Runners : pc[r] = "send"} :
           bc' = [r \in Runners |->
                     [bc[r] EXCEPT !.todo = IF r \in seen THEN @ \cup {w} ELSE @,
                                   !.changed = @ \/ pc[r] = "send"]]
    /\ UNCHANGED <<cfgVars, storeVars, cycleVars, loopVars, restVars, pc, response, cyclesLeft,
                   apiCalls, notified, histVars>>

\* /ws: ConnectionManager.disconnect
Disconnect(w) ==
    /\ w \in active_connections
    /\ active_connections' = active_connections \ {w}
    /\ bc' = [r \in Runners |-> [bc[r] EXCEPT !.todo = @ \ {w},
                                               !.changed = @ \/ pc[r] = "send"]]
    /\ UNCHANGED <<cfgVars, storeVars, cycleVars, loopVars, restVars, pc, response, cyclesLeft,
                   apiCalls, notified, histVars>>

(***************************************************************************)
(* Configuration and housekeeping requests                                  *)
(***************************************************************************)
ApiCall ==
    /\ apiCalls < MaxApiCalls
    /\ apiCalls' = apiCalls + 1

\* db.toggle_feed
toggle_feed(f, active) ==
    /\ ApiCall
    /\ feedActive' = [feedActive EXCEPT ![f] = active]
    /\ durable' = Committed
    /\ UNCHANGED <<tickers, keywords, settings, articles, article_tickers, nextId,
                   intended, cycleVars, loopVars, restVars, wsVars, pc, response, cyclesLeft, notified,
                   histVars>>

\* db.delete_ticker: the row of tickers only (foreign keys are not enforced)
delete_ticker(t) ==
    /\ ApiCall
    /\ t \in tickers
    /\ tickers' = tickers \ {t}
    /\ durable' = Committed
    /\ UNCHANGED <<feedActive, keywords, settings, articles, article_tickers, nextId,
                   intended, cycleVars, loopVars, restVars, wsVars, pc, response, cyclesLeft, notified,
                   histVars>>

\* db.update_settings(refresh_interval=v): stores what it is given
update_settings(v) ==
    /\ ApiCall
    /\ settings' = [settings EXCEPT !.refresh_interval = v]
    /\ durable' = Committed
    /\ UNCHANGED <<feedActive, tickers, keywords, articles, article_tickers, nextId,
                   intended, cycleVars, loopVars, restVars, wsVars, pc, response, cyclesLeft, notified,
                   histVars>>

\* db.add_keyword: the word in small letters, UNIQUE(word); the list is
\* read ORDER BY word
add_keyword(word) ==
    /\ ApiCall
    /\ Lower(word) \notin Range(keywords)
    /\ keywords' = keywords_with(keywords, Lower(word))
    /\ durable' = Committed
    /\ UNCHANGED <<feedActive, tickers, settings, articles, article_tickers, nextId,
                   intended, cycleVars, loopVars, restVars, wsVars, pc, response, cyclesLeft, notified,
                   histVars>>

\* DELETE /api/articles: the rows published before the cutoff (their
\* article_tickers rows stay: foreign keys are not enforced)
prune_articles(cutoff) ==
    /\ ApiCall
    /\ loop = "background_scraper_loop"
    /\ articles' = {a \in articles : ~(a.published_ts < cutoff)}
    /\ durable' = [articles |-> {a.id : a \in articles'}, article_tickers |-> article_tickers]
    /\ ingested' = {}
    /\ known' = [r \in Runners |-> {}]
    /\ dirty' = Runners
    /\ UNCHANGED <<cfgVars, article_tickers, nextId, intended, cycleVars, loopVars, restVars,
                   wsVars, pc, response, cyclesLeft, notified, retried>>

(***************************************************************************)
(* calculate_score on its own                                               *)
(***************************************************************************)
\* The call as process_feed_entries makes it: text, tickers, keywords and
\* strong_words; the aliases of the configuration are not among the arguments
ScoreEntry ==
    /\ scoring.phase = "called"
    /\ scoring' = [phase |-> "scored", text |-> scoring.text, tickers |-> scoring.tickers,
                   keywords |-> scoring.keywords, strong_words |-> scoring.strong_words,
                   result |-> calculate_score(scoring.text, scoring.tickers,
                                              scoring.keywords, scoring.strong_words)]
    /\ UNCHANGED <<cfgVars, storeVars, cycleVars, loopVars, wsVars, pc, response, cyclesLeft,
                   apiCalls, notified, histVars, catalog, stop, cyc>>

\* The call as test_company_matching makes it, with the merged mapping as
\* company_mapping: calculate_score has no such parameter, TypeError
ScoreWithMapping ==
    /\ scoring.phase = "called"
    /\ scoring' = [phase |-> "raised", text |-> scoring.text, tickers |-> scoring.tickers,
                   keywords |-> scoring.keywords, strong_words |-> scoring.strong_words,
                   error |-> "TypeError"]
    /\ UNCHANGED <<cfgVars, storeVars, cycleVars, loopVars, wsVars, pc, response, cyclesLeft,
                   apiCalls, notified, histVars, catalog, stop, cyc>>

(***************************************************************************)
(* Shutdown                                                                 *)
(***************************************************************************)
\* (an except clause that catches whatever is raised)
CatchesAll(exc) == TRUE
\* except Exception: catches every exception but those that derive from
\* BaseException only, which asyncio.CancelledError does
ExceptCatches(exc) == exc # "CancelledError"

\* The await the loop is suspended at lies inside the try of the while loop:
\* the first sleep comes before it and the recovery sleep is in its handler
InsideTry(at) == at \notin {"startup", "backoff"}

\* shutdown_event: background_task.cancel(), and the handler awaits the task.
\* The next thing the task sees at the await it is suspended at is
\* CancelledError.
shutdown_event ==
    /\ loop = "background_scraper_loop"
    /\ stop.phase = "none"
    /\ stop' = [phase |-> "cancelling", at |-> pc["sched"]]
    /\ pc' = [pc EXCEPT !["sched"] = "cancelling"]
    /\ UNCHANGED <<cfgVars, storeVars, cycleVars, loopVars, wsVars, response, cyclesLeft,
                   apiCalls, notified, histVars, catalog, scoring, cyc>>

\* CancelledError is raised in the loop: it leaves run_cycle and whatever
\* else was awaited, and ends the task unless the except clause of the loop
\* catches it
CancelledErrorRaised ==
    /\ pc["sched"] = "cancelling"
    /\ ClearCycle("sched")
    /\ IF InsideTry(stop.at) /\ ExceptCatches("CancelledError")
       THEN Escapes("sched")
       ELSE /\ pc' = [pc EXCEPT !["sched"] = "stopped"]
            /\ sleepFor' = 0
            /\ UNCHANGED response
    /\ UNCHANGED <<cfgVars, storeVars, inserted_count, insertErrors, loop, interval, wsVars,
                   cyclesLeft, apiCalls, notified, histVars, restVars>>

\* shutdown_event: the awaited task has ended with CancelledError, which the
\* handler passes over; close_db closes the connection, and what was written
\* on it and not committed is lost
ShutdownDone ==
    /\ stop.phase = "cancelling"
    /\ pc["sched"] = "stopped"
    /\ stop' = [stop EXCEPT !.phase = "complete"]
    /\ articles' = {a \in articles : a.id \in durable.articles}
    /\ article_tickers' = durable.article_tickers
    /\ UNCHANGED <<cfgVars, nextId, durable, intended, cycleVars, loopVars, wsVars, pc,
                   response, cyclesLeft, apiCalls, notified, histVars, catalog, scoring, cyc>>

(***************************************************************************)
(* Specifications                                                           *)
(***************************************************************************)
\* The steps of run_cycle, for either caller
CycleStep ==
    \/ \E r \in Runners : LoadFeeds(r)
    \/ \E r \in Runners : LoadTickers(r)
    \/ \E r \in Runners : LoadKeywords(r)
    \/ \E r \in Runners : LoadSettings(r)
    \/ \E r \in Runners, f \in Feeds : FetchEnds(r, f, "fail")
    \/ \E r \in Runners, f \in Feeds : \E d \in FeedDocs(f) : FetchEnds(r, f, d)
    \/ \E r \in Runners, f \in Feeds : ProcessEntry(r, f)
    \/ \E r \in Runners : InsertRow(r)
    \/ \E r \in Runners : \E t \in ins[r].left : InsertAssociation(r, t)
    \/ \E r \in Runners : InsertCommit(r)
    \/ \E r \in Runners : AfterCycle(r)

\* The store failing under run_cycle
StoreFault ==
    \/ \E r \in Runners : LoadFails(r)
    \/ \E r \in Runners : InsertAssociationFails(r)

\* Spec: the application (background_scraper_loop and the manual refresh)
\* over a store that may fail, with articles pruned meanwhile; no WebSocket
\* client connects.
InitApp ==
    /\ Init
    /\ loop = "background_scraper_loop"
    /\ feedActive = [f \in Feeds |-> TRUE]
    /\ tickers = DOMAIN TickerSymbol
    /\ cyclesLeft = MaxCycles
Next ==
    \/ StartupDone
    \/ LoopGetSettings
    \/ Wake
    \/ manual_refresh
    \/ CycleStep
    \/ StoreFault
    \/ \E cutoff \in {Now} : prune_articles(cutoff)

Spec == InitApp /\ [][Next]_vars

\* SpecWs: the application with WebSocket clients coming and going, one
\* active feed and one ticker; the store does not fail.
InitWs ==
    /\ Init
    /\ loop = "background_scraper_loop"
    /\ feedActive = [f \in Feeds |-> f = 1]
    /\ tickers = {1}
    /\ cyclesLeft = MaxCycles
NextWs ==
    \/ StartupDone
    \/ LoopGetSettings
    \/ Wake
    \/ manual_refresh
    \/ CycleStep
    \/ \E r \in Runners, ok \in BOOLEAN : SendEnds(r, ok)
    \/ \E w \in WebSockets : Connect(w)
    \/ \E w \in WebSockets : Disconnect(w)

SpecWs == InitWs /\ [][NextWs]_vars

\* SpecLoops: either scheduling loop running for ever on its own, whichever
\* feeds are active, the store failing and the configuration rewritten
\* meanwhile.  The event loop
\* runs every task that can run: weak fairness of the steps of the loop.
InitLoops ==
    /\ Init
    /\ tickers = DOMAIN TickerSymbol
    /\ cyclesLeft = -1
LoopStep ==
    \/ StartupDone
    \/ LoopGetSettings
    \/ ScraperLoopBegin
    \/ ScraperLoopSleep
    \/ Wake
    \/ CycleStep
NextLoops ==
    \/ LoopStep
    \/ StoreFault
    \/ \E v \in IntervalValues : update_settings(v)
    \/ \E f \in Feeds : toggle_feed(f, ~feedActive[f])
    \/ \E t \in DOMAIN TickerSymbol : delete_ticker(t)

SpecLoops == InitLoops /\ [][NextLoops]_vars /\ WF_vars(LoopStep)

\* SpecStop: background_scraper_loop running for ever over a store that may
\* fail, until the host shuts the application down.  The event loop runs
\* every task that can run.
InitStop ==
    /\ Init
    /\ loop = "background_scraper_loop"
    /\ feedActive = [f \in Feeds |-> TRUE]
    /\ tickers = DOMAIN TickerSymbol
    /\ cyclesLeft = -1
StopStep ==
    \/ CancelledErrorRaised
    \/ ShutdownDone
NextStop ==
    \/ StartupDone
    \/ LoopGetSettings
    \/ Wake
    \/ CycleStep
    \/ StoreFault
    \/ shutdown_event
    \/ StopStep

SpecStop == InitStop /\ [][NextStop]_vars /\ WF_vars(StopStep)

\* SpecEntries: the application over a store whose existence checks may
\* fail; every statement of insert_article succeeds.
NextEntries ==
    \/ StartupDone
    \/ LoopGetSettings
    \/ Wake
    \/ manual_refresh
    \/ CycleStep
    \/ \E r \in Runners, f \in Feeds : ExistsFails(r, f)

SpecEntries == InitApp /\ [][NextEntries]_vars

\* SpecKeywords: the application over a store that does not fail, keywords
\* being added through the API meanwhile.
NextKeywords ==
    \/ StartupDone
    \/ LoopGetSettings
    \/ Wake
    \/ manual_refresh
    \/ CycleStep
    \/ \E word \in NewKeywords : add_keyword(word)

SpecKeywords == InitApp /\ [][NextKeywords]_vars

\* SpecScore: calculate_score called on its own, on each of the texts with
\* each of the lists; the pipeline is at rest.
InitScore ==
    /\ InitState
    /\ scoring \in ScoreCalls
    /\ loop = "background_scraper_loop"
    /\ feedActive = [f \in Feeds |-> TRUE]
    /\ tickers = DOMAIN TickerSymbol
    /\ cyclesLeft = MaxCycles
NextScore ==
    \/ ScoreEntry
    \/ ScoreWithMapping

SpecScore == InitScore /\ [][NextScore]_vars

(***************************************************************************)
(* Properties                                                               *)
(***************************************************************************)
\* The task r is inside run_cycle
Running(r) ==
    pc[r] \in {"feeds", "tickers", "keywords", "strong", "fetch", "process", "insert"}

\* The task r has come to the end of its cycle and of what follows it
Completed(r) ==
    IF r = "sched" THEN pc[r] = "sleep" ELSE pc[r] = "idle" /\ response = "200"

\* The URLs of the stored articles
StoredUrls == {a.url : a \in articles}

\* A call of insert_article has written the row id and has not ended
InFlight(id) ==
    \E r \in Runners : ins[r].id = id /\ ins[r].phase \in {"assoc", "commit"}

\* C1: at most one execution of run_cycle is running at any instant: a manual
\* refresh never runs its cycle while the cycle of the scheduler is in flight.
C1_OneCycleAtATime == ~(Running("sched") /\ Running("manual"))

\* C2: in every reachable state the store holds at most one article per URL,
\* also when entries of one cycle (of one feed or of two) carry the same URL
\* and when a manual and a scheduled cycle work on the same entries at once.
C2_UrlUnique == \A a, b \in articles : a.url = b.url => a = b

\* Both cycles are inserting the same URL, each holding it more than once,
\* and the store has it
C2_Witness ==
    /\ pc["sched"] = "insert" /\ pc["manual"] = "insert"
    /\ LET s == all_articles["sched"]
           m == all_articles["manual"]
       IN /\ s[ins["sched"].i].url = m[ins["manual"].i].url
          /\ s[ins["sched"].i].url \in StoredUrls
          /\ \E i, j \in DOMAIN s : i # j /\ s[i].url = s[j].url /\ s[i].feed_id = s[j].feed_id
          /\ \E i, j \in DOMAIN s : s[i].url = s[j].url /\ s[i].feed_id # s[j].feed_id

\* C3: a cycle over content that completed cycles have been through, nothing
\* deleted since, stores each URL once: every such URL is stored exactly once,
\* the cycle prepares no article for a URL it found stored, and when all its
\* URLs were stored it returns 0 having inserted nothing.
C3_Deduplication ==
    /\ \A u \in ingested : Cardinality({a \in articles : a.url = u}) = 1
    /\ \A r \in Runners, f \in Feeds :
           \A i \in DOMAIN out[r][f] : out[r][f][i].url \notin known[r]
    /\ \A r \in Runners :
           (pc[r] = "ret" /\ ValidUrls(fetched[r]) \subseteq known[r])
               => (inserted_count[r] = 0 /\ all_articles[r] = <<>>)

\* A second cycle over the content of both feeds returns 0
C3_Witness ==
    \E r \in Runners :
        /\ pc[r] = "ret"
        /\ fetched[r] = [f \in Feeds |-> IF f = 1 THEN "d1" ELSE "d2"]
        /\ known[r] = {"u1", "u2"}
        /\ inserted_count[r] = 0
        /\ Cardinality(articles) = 2

\* C4: insert_article is all-or-nothing: once no call is at work on it, a
\* stored article has every association the call was to write.
C4_AllOrNothing ==
    \A a \in articles :
        ~InFlight(a.id) => \A p \in intended : p[1] = a.id => p \in article_tickers

\* C5: a failed fetch does not abort the cycle: when run_cycle returns after
\* a fetch of it failed, the failed feed has contributed no article, the URLs
\* of the entries of the other feeds are stored (nothing deleted meanwhile)
\* and the value returned counts the articles the cycle inserted.
C5_FetchFailureIsolated ==
    \A r \in Runners :
        (pc[r] = "ret" /\ \E f \in Feeds : fetched[r][f] = "fail") =>
            /\ \A i \in DOMAIN all_articles[r] :
                   fetched[r][all_articles[r][i].feed_id] \in DOMAIN Docs
            /\ r \notin dirty => ValidUrls(fetched[r]) \subseteq StoredUrls
            /\ inserted_count[r] = Len(all_articles[r]) - insertErrors[r]

\* Feed 1 fails, feed 2 delivers one new entry: run_cycle returns 1
C5_Witness ==
    \E r \in Runners :
        /\ pc[r] = "ret"
        /\ fetched[r] = [f \in Feeds |-> IF f = 1 THEN "fail" ELSE "d2"]
        /\ Len(all_articles[r]) = 1
        /\ inserted_count[r] = 1

\* C6: a slow fetch does not delay the processing of another feed: the
\* entries of a feed whose fetch has succeeded can be processed while another
\* fetch of the cycle is pending.
C6_NoDelay ==
    \A r \in Runners, f \in Feeds :
        (/\ fetched[r][f] \in DOMAIN Docs
         /\ \E g \in Feeds : fetched[r][g] = "pending")
            => CanProcess(r, f)

\* C6, as the code has it: no entry of a cycle is processed while a fetch of
\* the cycle is pending; once every fetch has ended, however it ended, the
\* entries of every fetched feed are processed before the inserts.
C6_AfterAllFetches ==
    \A r \in Runners :
        /\ (\E g \in Feeds : fetched[r][g] = "pending") =>
               /\ pc[r] = "fetch"
               /\ \A f \in Feeds : ppos[r][f] = 0 /\ out[r][f] = <<>>
        /\ pc[r] \in {"insert", "ret"} =>
               /\ AllProcessed(fetched[r], ppos[r])
               /\ \A f \in Feeds : fetched[r][f] \in DOMAIN Docs => ppos[r][f] > 0

\* The fetch of feed 2 has failed, and the entries of feed 1 are under way
C6_Witness ==
    \E r \in Runners :
        /\ pc[r] = "process"
        /\ fetched[r] = [f \in Feeds |-> IF f = 1 THEN "d1" ELSE "fail"]
        /\ ppos[r][1] > 1

\* C7: an exception escaping a cycle never ends the scheduling loop: the
\* loop sleeps the recovery interval of 60 seconds, then a cycle starts, and
\* whatever has failed a next cycle always eventually starts.
C7_LoopSurvives ==
    /\ [](pc["sched"] = "backoff" => sleepFor = RecoveryInterval)
    /\ (pc["sched"] = "backoff") ~> (pc["sched"] = "feeds")
    /\ []<>(pc["sched"] = "feeds")

\* A cycle begins after the recovery sleep
C7_Witness == retried /\ pc["sched"] = "feeds" /\ loop = "scraper_loop"

C9_SendFailureIsolated ==
    /\ \A r \in Runners :
           /\ bc[r].result = "raised" => bc[r].changed
           /\ (bc[r].result = "returned" /\ ~bc[r].changed) => bc[r].sent = bc[r].initial
    /\ bc["sched"].result = "returned" => pc["sched"] \in {"sleep", "settings"}
    /\ bc["manual"].result = "returned" => (pc["manual"] = "idle" /\ response = "200")

\* A send of the scheduler's broadcast has failed, both connections were
\* sent to, and the scheduler sleeps its interval
C9_Witness ==
    /\ bc["sched"].result = "returned"
    /\ ~bc["sched"].changed
    /\ Cardinality(bc["sched"].disconnected) = 1
    /\ bc["sched"].sent = WebSockets
    /\ pc["sched"] = "sleep"
    /\ sleepFor = SeedInterval

\* C10: every sleep after a completed cycle lasts at least 10 seconds, in
\* both loops, whatever refresh_interval the settings hold.
C10_SleepAtLeastMin == pc["sched"] = "sleep" => sleepFor >= MinInterval

\* The scheduling loop begins the sleep that follows its cycle
SleepBegins == pc["sched"] # "sleep" /\ pc'["sched"] = "sleep"

\* max(v, 10)
Clamped(v) == IF v > MinInterval THEN v ELSE MinInterval

\* C11: the sleep that follows a cycle lasts the refresh interval the
\* settings hold when the cycle has completed (clamped or not): a change made
\* while the cycle was running governs the sleep right after it.
C11_RereadAfterCycle ==
    [][SleepBegins =>
           sleepFor' \in {settings.refresh_interval, Clamped(settings.refresh_interval)}]_vars

\* C11, as the code has it: the sleep lasts the interval the loop read in
\* this iteration.  background_scraper_loop reads it before it calls
\* run_cycle, so the sleep lasts what the settings held when the cycle began;
\* scraper_loop reads it after run_cycle has returned.
C11_IntervalOfIteration ==
    [][SleepBegins =>
           sleepFor' = IF loop = "background_scraper_loop"
                       THEN Clamped(cyc["sched"].began)
                       ELSE settings.refresh_interval]_vars

\* The interval was changed while the cycle of background_scraper_loop was
\* running, and the loop sleeps the interval of before the change
C11_Witness ==
    /\ loop = "background_scraper_loop"
    /\ pc["sched"] = "sleep"
    /\ cyc["sched"].began = SeedInterval
    /\ cyc["sched"].ended \in IntervalValues
    /\ sleepFor = SeedInterval

\* C12: a cycle works on the configuration of one instant: once its four
\* reads are done, the feeds, tickers, keywords and strong words it holds
\* are those the store held at the first of the reads, whatever was changed
\* through the API after it.
C12_OneSnapshot ==
    \A r \in Runners :
        pc[r] \in {"fetch", "process", "insert"} => snap[r] = cyc[r].cfg

\* C13: once the host has cancelled the scheduling task, no cycle begins any
\* more, and the task eventually ends and the shutdown completes, wherever
\* the cancellation found the loop: in a sleep or inside a cycle.
C13_GracefulShutdown ==
    /\ [][stop.phase # "none" => ~(pc["sched"] # "feeds" /\ pc'["sched"] = "feeds")]_vars
    /\ (stop.phase = "cancelling") ~> (stop.phase = "complete" /\ pc["sched"] = "stopped")

\* The shutdown has completed after it found the loop inserting an article
C13_Witness ==
    /\ stop.phase = "complete"
    /\ stop.at = "insert"
    /\ pc["sched"] = "stopped"

\* C14: the value run_cycle returns is the number of rows of articles the
\* cycle has added to the store (none of them deleted since), also when
\* inserts of the cycle failed and when another cycle inserted the same URLs.
C14_ReturnsRowsAdded ==
    \A r \in Runners :
        (pc[r] = "ret" /\ r \notin dirty) =>
            inserted_count[r] = Cardinality(cyc[r].added \cap durable.articles)

\* C15: a cycle that finds no active feed returns 0 at once and without an
\* error: it goes through no later step of run_cycle, fetches nothing, writes
\* no row, publishes no event, and its loop does not back off.
C15_NoActiveFeeds ==
    \A r \in Runners :
        (cyc[r].read /\ cyc[r].cfg.feeds = <<>>) =>
            /\ pc[r] \in {"ret", "settings", "sleep", "idle"}
            /\ inserted_count[r] = 0
            /\ fetched[r] = [f \in Feeds |-> "none"]
            /\ all_articles[r] = <<>>
            /\ cyc[r].added = {}
            /\ notified[r] = <<>>

\* The loop sleeps after a cycle that found no active feed
C15_Witness ==
    /\ cyc["sched"].read
    /\ cyc["sched"].cfg.feeds = <<>>
    /\ pc["sched"] = "sleep"
    /\ inserted_count["sched"] = 0

\* calculate_score has returned to a call made as process_feed_entries
\* makes it
Scored == scoring.phase = "scored"

\* The places of text where w stands
MatchAt(text, w) ==
    {i \in 1..(Len(text) - Len(w) + 1) : SubSeq(text, i, i + Len(w) - 1) = w}

\* The occurrences of w in text: the most places where w stands that do not
\* overlap one another
Occurrences(text, w) ==
    LET apart(P) == \A i, j \in P : i < j => j - i >= Len(w)
        sizes == {Cardinality(P) : P \in {Q \in SUBSET MatchAt(text, w) : apart(Q)}}
    IN CHOOSE k \in sizes : \A m \in sizes : m <= k

\* The occurrences of all the words of a list, case ignored
RECURSIVE OccurrencesOfAll(_, _)
OccurrencesOfAll(text, words) ==
    IF words = <<>> THEN 0
    ELSE Occurrences(Lower(text), Lower(Head(words))) + OccurrencesOfAll(text, Tail(words))

\* Some word of the list stands somewhere in the text, case ignored
SomeWordOccurs(text, words) ==
    \E k \in DOMAIN words : MatchAt(Lower(text), Lower(words[k])) # {}

\* C16: the score is 2 x (number of matched tickers) + (occurrences of all
\* keywords) + s, with s = 1 when some strong word occurs and 0 otherwise,
\* however often strong words occur; it is never negative; and the headline
\* about Apple and Tesla scores 6 with both tickers matched.
C16_ScoreFormula ==
    Scored =>
        /\ scoring.result.score =
               2 * Cardinality(scoring.result.matched)
               + OccurrencesOfAll(scoring.text, scoring.keywords)
               + (IF SomeWordOccurs(scoring.text, scoring.strong_words) THEN 1 ELSE 0)
        /\ scoring.result.score >= 0
        /\ (/\ scoring.text = TextApple
            /\ scoring.tickers = {AAPL, TSLA}
            /\ scoring.keywords = <<Earnings>>
            /\ scoring.strong_words = <<Record>>)
               => (scoring.result.score = 6 /\ scoring.result.matched = {AAPL, TSLA})

\* The headline about Apple and Tesla has been scored 6
C16_Witness ==
    /\ Scored
    /\ scoring.text = TextApple
    /\ scoring.tickers = {AAPL, TSLA}
    /\ scoring.keywords = <<Earnings>>
    /\ scoring.strong_words = <<Record>>
    /\ scoring.result.score = 6

\* C17: the matched tickers calculate_score returns are among the tickers
\* it was given, whichever symbols and company names the text holds.
C17_MatchedSubset == Scored => scoring.result.matched \subseteq scoring.tickers

\* The text names Apple and Tesla, only AAPL was given, only AAPL is matched
C17_Witness ==
    /\ Scored
    /\ scoring.text = TextApple
    /\ scoring.tickers = {AAPL}
    /\ scoring.result.matched = {AAPL}

\* A letter or a digit
IsAlnum(c) ==
    c \in Range(LowerLetters) \cup Range(UpperLetters)
          \cup {"0", "1", "2", "3", "4", "5", "6", "7", "8", "9"}

\* The symbol standing at place i of the text is part of a longer word
InsideWord(text, i, n) ==
    \/ i > 1 /\ IsAlnum(text[i - 1])
    \/ i + n <= Len(text) /\ IsAlnum(text[i + n])

\* The symbol standing at place i of the text stands alone between
\* delimiters
StandsAlone(text, i, n) ==
    /\ i = 1 \/ text[i - 1] \in {" ", ",", ".", "(", "$"}
    /\ i + n > Len(text) \/ text[i + n] \in {" ", ",", ".", ")"}

\* C18: symbol matching does not report a ticker whose symbol stands in the
\* text only as part of longer words, and reports a ticker whose symbol
\* stands alone between delimiters somewhere in the text.
C18_WholeWordOnly ==
    Scored =>
        \A t \in scoring.tickers :
            LET text == Upper(scoring.text)
                at == MatchAt(text, Upper(t))
            IN /\ (\A i \in at : InsideWord(text, i, Len(t)))
                      => ~SymbolMatches(scoring.text, t)
               /\ (\E i \in at : StandsAlone(text, i, Len(t)))
                      => SymbolMatches(scoring.text, t)

\* C19: a ticker that was given is matched whenever the text holds, case
\* ignored, one of its aliases, be the alias of the built-in table or of the
\* configuration only; the call that passes the merged mapping returns too.
C19_MergedAliases ==
    scoring.phase \in {"scored", "raised"} =>
        \A m \in COMPANY_TO_TICKER \cup ConfiguredAliases :
            (m[2] \in scoring.tickers /\ Contains(Lower(scoring.text), m[1]))
                => (scoring.phase = "scored" /\ m[2] \in scoring.result.matched)

\* C20: the keywords add to the score the occurrences of each of them in
\* the text, case ignored, summed over the keywords; a keyword that occurs
\* three times adds 3.
C20_KeywordsCumulative ==
    Scored =>
        LET without == calculate_score(scoring.text, scoring.tickers, <<>>,
                                       scoring.strong_words).score
        IN /\ scoring.result.score - without
                  = OccurrencesOfAll(scoring.text, scoring.keywords)
           /\ (scoring.text = TextThrice /\ scoring.keywords = << Earnings >>)
                  => scoring.result.score - without = 3

\* The text with earnings three times has been scored with that keyword
\* and two strong words, no ticker given: 3 and 1
C20_Witness ==
    /\ Scored
    /\ scoring.text = TextThrice
    /\ scoring.keywords = <<Earnings>>
    /\ scoring.strong_words # <<>>
    /\ scoring.tickers = {}
    /\ scoring.result.score = 4

\* C21: no article is ever stored, or prepared for the store, with an empty
\* URL or an empty cleaned title: an entry without a link, with an empty link
\* or with a title that is empty once the markup is removed is skipped.
C21_NoEmptyUrlOrTitle ==
    /\ \A a \in articles : a.url # "" /\ a.title # <<>>
    /\ \A r \in Runners, f \in Feeds :
           \A i \in DOMAIN out[r][f] : out[r][f][i].url # "" /\ out[r][f][i].title # <<>>

\* A cycle has returned from the document that holds an entry without a link,
\* one with an empty link and one with an empty title, and has stored the
\* other entries of it
C21_Witness ==
    \E r \in Runners :
        /\ pc[r] = "ret"
        /\ fetched[r][2] = "d2"
        /\ inserted_count[r] >= 1
        /\ \E a \in articles : a.feed_id = 2 /\ a.id \in cyc[r].added

\* The entries of each document that get as far as the existence check with
\* a date that is missing or is not a date: their URLs and cleaned titles
BadDateOf ==
    [d \in DOMAIN Docs |->
        {[url |-> Get(Docs[d][i], "link", ""),
          title |-> clean_html(Get(Docs[d][i], "title", NoTitle))] :
             i \in {k \in DOMAIN Docs[d] : /\ ReachesExists(Docs[d][k])
                                           /\ ~Parses(published_date(Docs[d][k]))}}]

\* C22: an entry whose date is missing or is not a date is not dropped: when
\* its cycle returns (nothing deleted meanwhile) its URL is stored, and the
\* article stored for it carries the current time.
C22_BadDateNotDropped ==
    /\ \A r \in Runners, f \in Feeds :
           (pc[r] = "ret" /\ r \notin dirty /\ fetched[r][f] \in DOMAIN Docs) =>
               \A e \in BadDateOf[fetched[r][f]] : e.url \in StoredUrls
    /\ \A a \in articles, d \in DOMAIN Docs :
           \A e \in BadDateOf[d] :
               (a.url = e.url /\ a.title = e.title) => a.published_ts = Now

\* A cycle has stored the entry dated "soon" and the entry without a date,
\* both with the current time
C22_Witness ==
    \E r \in Runners :
        /\ pc[r] = "ret"
        /\ \E a, b \in articles :
               /\ {a.id, b.id} \subseteq cyc[r].added
               /\ a.title = eDup.title /\ a.published_ts = Now
               /\ b.title = eOther.title /\ b.published_ts = Now

\* A step of the call of run_cycle that the task r has made: the code
\* between two of its awaits, up to its return or its exception
RunCycleStep(r) ==
    \/ LoadFeeds(r) \/ LoadFails(r)
    \/ LoadTickers(r) \/ LoadKeywords(r) \/ LoadSettings(r)
    \/ \E f \in Feeds : FetchEnds(r, f, "fail")
    \/ \E f \in Feeds : \E d \in FeedDocs(f) : FetchEnds(r, f, d)
    \/ \E f \in Feeds : ProcessEntry(r, f)
    \/ InsertRow(r)
    \/ \E t \in ins[r].left : InsertAssociation(r, t)
    \/ InsertAssociationFails(r)
    \/ InsertCommit(r)

\* C23: a cycle only adds rows: no step of run_cycle changes or removes an
\* article, or an association, other than those the cycle itself has written,
\* and none changes the feeds, the tickers, the keywords or the settings.
C23_OnlyAddsRows ==
    [][\A r \in Runners :
           RunCycleStep(r) =>
               /\ \A a \in articles : a.id \notin cyc[r].added => a \in articles'
               /\ \A p \in article_tickers : p[1] \notin cyc[r].added => p \in article_tickers'
               /\ UNCHANGED cfgVars]_vars

\* A cycle has returned having added rows to a store that held rows of
\* before it, associations among them
C23_Witness ==
    \E r \in Runners :
        /\ pc[r] = "ret"
        /\ cyc[r].added # {}
        /\ \E a \in articles : a.id \notin cyc[r].added
        /\ \E p \in article_tickers : p[1] \notin cyc[r].added

\* C24: every ticker an article is associated with is configured when the
\* article is written to the store: insert_article is never asked to
\* associate an article with a ticker the store does not hold at that moment,
\* also when a ticker was deleted while the cycle was running.
C24_TickersConfigured ==
    [][\A p \in intended' \ intended : p[2] \in tickers]_vars

\* The entries of each document that get as far as the existence check:
\* their positions, URLs and cleaned titles
CheckedOf ==
    [d \in DOMAIN Docs |->
        {[j |-> i,
          url |-> Get(Docs[d][i], "link", ""),
          title |-> clean_html(Get(Docs[d][i], "title", NoTitle))] :
             i \in {k \in DOMAIN Docs[d] : ReachesExists(Docs[d][k])}}]

\* C25: an exception on one entry skips that entry only.  Once the
\* processing of a cycle is over, every other entry of every fetched feed
\* that got as far as the existence check is among the articles to insert or
\* has its URL stored, whichever entries raised (an entry whose fields are
\* malformed, an existence check that failed); and the cycle does not fail:
\* the loop does not back off and the manual refresh is not answered 500.
C25_EntryErrorIsolated ==
    /\ \A r \in Runners, f \in Feeds :
           (pc[r] \in {"insert", "ret"} /\ fetched[r][f] \in DOMAIN Docs) =>
               \A e \in CheckedOf[fetched[r][f]] :
                   <<f, e.j>> \notin cyc[r].raised =>
                       \/ e.url \in StoredUrls
                       \/ \E i \in DOMAIN all_articles[r] :
                              /\ all_articles[r][i].feed_id = f
                              /\ all_articles[r][i].url = e.url
                              /\ all_articles[r][i].title = e.title
    /\ pc["sched"] # "backoff"
    /\ response # "500"

\* A cycle has returned after the existence check of the first entry of
\* feed 1 raised and an entry of feed 2 was malformed: it has inserted the
\* second entry of feed 1 and entries of feed 2
C25_Witness ==
    \E r \in Runners :
        /\ pc[r] = "ret"
        /\ cyc[r].raised = {<<1, 1>>}
        /\ fetched[r][2] = "d2"
        /\ \E a, b \in articles :
               /\ {a.id, b.id} \subseteq cyc[r].added
               /\ a.feed_id = 1 /\ a.title = eDup.title
               /\ b.feed_id = 2

\* C26: every cycle that starts ends, each fetch ending by success, error or
\* timeout: the scheduling loop leaves run_cycle by its return or by an
\* exception that reaches the loop, and from inside run_cycle it always
\* eventually comes to a sleep, the sleep of its interval or the recovery
\* sleep.
C26_CycleTerminates ==
    /\ [][(Running("sched") /\ pc'["sched"] # pc["sched"]) =>
              pc'["sched"] \in {"feeds", "tickers", "keywords", "strong", "fetch",
                                "process", "insert", "ret", "backoff"}]_vars
    /\ Running("sched") ~> (pc["sched"] \in {"sleep", "backoff"})

\* The loop sleeps its interval after a cycle that wrote rows, begun after a
\* cycle that raised
C26_Witness ==
    /\ pc["sched"] = "sleep"
    /\ retried
    /\ cyc["sched"].read
    /\ cyc["sched"].added # {}

\* The broadcast of the task r returns in this step
BroadcastReturns(r) == bc[r].result # "returned" /\ bc'[r].result = "returned"

\* C27: when a broadcast returns, every subscriber to which its send failed
\* is out of the set of active connections, and every subscriber to which
\* its send succeeded is in it.
C27_PrunedOnReturn ==
    [][\A r \in Runners :
           BroadcastReturns(r) =>
               /\ bc'[r].disconnected \cap active_connections' = {}
               /\ (bc'[r].sent \ bc'[r].disconnected) \subseteq active_connections']_vars

\* C27, as the code has it: when a broadcast returns it has taken out of the
\* set exactly the subscribers to which its send failed.  None of them is in
\* the set, and a subscriber to which the send succeeded is in it unless it
\* had left the set before the broadcast returned (it disconnected while
\* the broadcast was suspended in a send).
C27_PrunesFailedOnly ==
    [][\A r \in Runners :
           BroadcastReturns(r) =>
               /\ active_connections' = active_connections \ bc'[r].disconnected
               /\ bc'[r].disconnected \cap active_connections' = {}
               /\ (bc'[r].sent \ bc'[r].disconnected) \cap active_connections
                      \subseteq active_connections']_vars

\* A broadcast has returned after one send failed and one succeeded: the
\* first subscriber is out of the set, the second is in it
C27_Witness ==
    \E r \in Runners :
        /\ bc[r].result = "returned"
        /\ bc[r].sent = WebSockets
        /\ \E w \in WebSockets :
               /\ bc[r].disconnected = {w}
               /\ active_connections = WebSockets \ {w}

\* The entries with the URL u, among those of the document of feed f that
\* get as far as the existence check
CheckedWith(fet, f, u) ==
    IF fet[f] \in DOMAIN Docs
    THEN Cardinality({e \in CheckedOf[fet[f]] : e.url = u})
    ELSE 0

\* The articles with the URL u among those the cycle is to insert
PreparedWith(all, u) == Cardinality({i \in DOMAIN all : all[i].url = u})

\* C28: within a cycle every existence check comes before the first insert:
\* while the cycle fetches and processes it has written no row, and once it
\* inserts no entry is left to check.  So no check sees the rows of its own
\* cycle: the entries of a cycle that carry one URL are all among the
\* articles to insert, or none of them is (the URL was stored before), and
\* when the cycle returns every article of it was either counted or stopped
\* by an exception of insert_article, the later ones of a URL always.
C28_ChecksBeforeInserts ==
    \A r \in Runners :
        /\ pc[r] \in {"fetch", "process"} => cyc[r].added = {}
        /\ pc[r] \in {"insert", "ret"} =>
               /\ AllProcessed(fetched[r], ppos[r])
               /\ \A u \in {"u1", "u2"} :
                      PreparedWith(all_articles[r], u)
                          \in {0, CheckedWith(fetched[r], FeedOrder[1], u)
                                  + CheckedWith(fetched[r], FeedOrder[2], u)}
        /\ pc[r] = "ret" =>
               /\ inserted_count[r] + insertErrors[r] = Len(all_articles[r])
               /\ \A u \in {"u1", "u2"} :
                      Cardinality({a \in articles : a.id \in cyc[r].added /\ a.url = u}) <= 1
               /\ inserted_count[r] <= Cardinality({all_articles[r][i].url :
                                                      i \in DOMAIN all_articles[r]})

\* A cycle has returned with three articles of one URL, of two feeds: one
\* row was written and two inserts raised
C28_Witness ==
    \E r \in Runners :
        /\ pc[r] = "ret"
        /\ PreparedWith(all_articles[r], "u1") = 3
        /\ Cardinality({a \in articles : a.id \in cyc[r].added /\ a.url = "u1"}) = 1
        /\ insertErrors[r] = 2

\* C29: a subscriber that connects or disconnects while a broadcast is
\* suspended in a send does not make the broadcast fail: no broadcast
\* raises, the scheduling loop does not take its cycle for failed (it does
\* not back off) and the manual refresh is not answered 500.
C29_ChurnTolerated ==
    /\ \A r \in Runners : bc[r].changed => bc[r].result # "raised"
    /\ pc["sched"] # "backoff"
    /\ response # "500"

\* C30: no commit on the shared connection makes durable an article that
\* lacks associations: while a call of insert_article has written its row
\* and has associations left to write, the row is not durable.
C30_NoPartialCommit ==
    \A r \in Runners :
        (pc[r] = "insert" /\ ins[r].phase = "assoc") => ins[r].id \notin durable.articles
====
